---- MODULE Spec2Model ----
(***************************************************************************)
(* A model of dyson-cli: the persisted config (config.py) and the command  *)
(* handlers of cli.py that read and write it and that drive the device     *)
(* client and the discovery scan.                                          *)
(*                                                                         *)
(* One action is one CLI invocation, run from start to exit.  What the     *)
(* invocation did is recorded in `last`: the calls it made on its          *)
(* collaborators and the messages it printed, in order (last.log), the     *)
(* address it handed to connect (last.ip), what its discovery scan reported *)
(* (last.found) and its exit status (last.exit).  `prev` is the persisted  *)
(* config as it was when the invocation started, `arg` the value typed for *)
(* the command's argument (the fan speed, the heat target, remove's        *)
(* --force flag), None for a command without one.                          *)
(***************************************************************************)
EXTENDS Integers, Sequences, FiniteSets, TLC

VARIABLES config, prev, last, arg

vars == <<config, prev, last, arg>>

-----------------------------------------------------------------------------
(* Values *)

\* Python's None: an absent identifier, an absent "ip" key, a null default.
None == "None"

\* Exit codes, cli.py:24-28.
EXIT_SUCCESS == 0
EXIT_ERROR == 1
EXIT_USAGE_ERROR == 2
EXIT_CONNECTION_ERROR == 3
EXIT_DEVICE_NOT_FOUND == 4

\* The most records the cloud account lists (NamePool and SerialPool hold two
\* names and two serials up to case, so no listing is longer than two).
MaxDevices == 2

\* The most devices one discovery scan reports.
MaxDiscovered == 1

\* Names and serials the cloud account may report.  The name "x1" equals the
\* serial "X1" up to case.
NamePool == {"Den", "x1"}
SerialPool == {"X1", "s2"}
AddrPool == {"10.0.0.5", "10.0.0.9"}
CredPool == {"cred"}
TypePool == {"527"}

\* What the user may type after --device (None: option absent): "den" is the
\* name "Den" up to case, "x1" is a name and, up to case, the serial "X1".
IdentPool == {None, "den", "x1"}

\* str.lower()
Lower(s) ==
  CASE s = "Den" -> "den"
    [] s = "X1" -> "x1"
    [] s = "Auto" -> "auto"
    [] OTHER -> s

\* Python truthiness of an optional string.
Truthy(s) == s # None /\ s # ""

Min(S) == CHOOSE x \in S : \A y \in S : x <= y

Range(f) == {f[i] : i \in DOMAIN f}

\* Sequences over S of length at most n.
SeqsUpTo(S, n) == UNION {[1..k -> S] : k \in 0..n}

-----------------------------------------------------------------------------
(* config.py *)

\* DeviceConfig as setup writes it: no "ip" key yet.
NewDevice(n, s, c, t) ==
  [name |-> n, serial |-> s, credential |-> c, product_type |-> t, ip |-> None]

\* What the cloud account may list: names unique and serials unique, each up
\* to case.
CloudDevices ==
  {ds \in SeqsUpTo({NewDevice(n, s, c, t) :
                      n \in NamePool, s \in SerialPool, c \in CredPool, t \in TypePool},
                   MaxDevices) :
     \A i, j \in DOMAIN ds :
        i # j => /\ Lower(ds[i].name) # Lower(ds[j].name)
                 /\ Lower(ds[i].serial) # Lower(ds[j].serial)}

\* load_config() of a store that does not exist.
EmptyConfig == [devices |-> <<>>, default_device |-> None]

\* The loop of get_device: the position of the first record whose name or
\* serial equals `name` up to case, 0 when there is none.
first_match(devices, name) ==
  LET hits == {i \in DOMAIN devices :
                 \/ Lower(devices[i].name) = Lower(name)
                 \/ Lower(devices[i].serial) = Lower(name)}
  IN IF hits = {} THEN 0 ELSE Min(hits)

\* get_device with the default_device branch left out.
get_device_ignoring_default(cfg, name) ==
  IF cfg.devices = <<>> THEN 0
  ELSE IF Truthy(name) THEN first_match(cfg.devices, name)
  ELSE 1

\* get_device(name): the position in cfg.devices of the record returned,
\* 0 for a return of None.
get_device(cfg, name) ==
  IF cfg.devices = <<>> THEN 0
  ELSE IF Truthy(name) THEN first_match(cfg.devices, name)
  ELSE IF Truthy(cfg.default_device)
       THEN first_match(cfg.devices, cfg.default_device)
  ELSE 1

-----------------------------------------------------------------------------
(* One invocation's record *)

Invocation(cmd, device, dry_run, ip, log, exit) ==
  [cmd |-> cmd, device |-> device, dry_run |-> dry_run,
   ip |-> ip, found |-> <<>>, log |-> log, exit |-> exit]

\* Calls on the device protocol client (libdyson_get_device constructs it).
ClientCalls ==
  {"libdyson_get_device", "connect", "disconnect", "read_state",
   "turn_on", "turn_off", "enable_auto_mode", "disable_auto_mode", "set_speed",
   "enable_oscillation()", "enable_oscillation(low,high)",
   "disable_oscillation", "enable_heat_mode",
   "disable_heat_mode", "set_heat_target", "enable_night_mode",
   "disable_night_mode"}

\* Calls on the discovery collaborator.
DiscoveryCalls == {"start_discovery", "stop_discovery"}

\* The calls of a handler's try block that may raise, by position in `events`.
Raisers(events) == {i \in DOMAIN events : events[i] \in ClientCalls}

\* try_session with an except clause that swallows the exception and goes on.
try_session_swallows(events, fail_at) ==
  IF fail_at = 0
  THEN [log |-> events, exit |-> EXIT_SUCCESS]
  ELSE [log |-> SubSeq(events, 1, fail_at) \o <<"raises">>
                  \o SubSeq(events, fail_at + 1, Len(events)),
        exit |-> EXIT_SUCCESS]

\* try: <events> except Exception: print failed; sys.exit(EXIT_CONNECTION_ERROR).
\* fail_at = 0: nothing raises; otherwise events[fail_at] is called and raises
\* ("raises" in the log marks it).
try_session(events, fail_at) ==
  IF fail_at = 0
  THEN [log |-> events, exit |-> EXIT_SUCCESS]
  ELSE [log |-> SubSeq(events, 1, fail_at) \o <<"raises", "print_failed">>,
        exit |-> EXIT_CONNECTION_ERROR]

Init ==
  /\ config = EmptyConfig
  /\ prev = EmptyConfig
  /\ last = Invocation("none", None, FALSE, None, <<>>, EXIT_SUCCESS)
  /\ arg = None

-----------------------------------------------------------------------------
(* cli.py: setup *)

\* setup: login_ok is whether the OTP login and verification went through,
\* devices is what account.devices() lists.
setup(login_ok, devices) ==
  /\ prev' = config
  /\ arg' = None
  /\ IF ~login_ok
     THEN /\ config' = config
          /\ last' = Invocation("setup", None, FALSE, None,
                                <<"print_login_failed">>, EXIT_ERROR)
     ELSE IF devices = <<>>
     THEN /\ config' = config
          /\ last' = Invocation("setup", None, FALSE, None,
                                <<"print_no_devices">>, EXIT_SUCCESS)
     ELSE /\ config' =
               [devices |-> devices,
                default_device |->
                  IF ~Truthy(config.default_device)
                  THEN devices[1].name
                  ELSE config.default_device]
          /\ last' = Invocation("setup", None, FALSE, None,
                                <<"save_config", "print_saved">>,
                                EXIT_SUCCESS)

-----------------------------------------------------------------------------
(* cli.py: status *)

\* What one discovery window yields: discovery.devices, a mapping serial ->
\* address of at most MaxDiscovered devices, or an exception raised by
\* start_discovery or by stop_discovery.
DiscSerialPool == SerialPool \cup {"x1"}

DiscoveryMaps ==
  UNION {[S -> AddrPool] : S \in {T \in SUBSET DiscSerialPool : Cardinality(T) <= MaxDiscovered}}

DiscoveryFailures == {"start_discovery", "stop_discovery"}

\* The outcomes of one scan: failed names the discovery call that raises (None:
\* neither does), found is discovery.devices.
DiscoveryOutcomes ==
  {[failed |-> f, found |-> <<>>] : f \in DiscoveryFailures}
    \cup {[failed |-> None, found |-> m] : m \in DiscoveryMaps}

\* The loop over config["devices"] that writes the discovered address.
set_ip(devices, serial, ip) ==
  [i \in DOMAIN devices |->
     IF devices[i].serial = serial THEN [devices[i] EXCEPT !.ip = ip] ELSE devices[i]]

\* discover with the serials compared up to case.
discover_ignoring_case(cfg, rec, scan) ==
  LET hits == {s \in DOMAIN scan.found : Lower(s) = Lower(rec.serial)}
      hit == CHOOSE s \in hits : TRUE
  IN IF scan.failed = "start_discovery"
     THEN [ip |-> None, config |-> cfg,
           log |-> <<"print_trying_discovery", "start_discovery",
                     "print_discovery_failed">>]
     ELSE IF scan.failed = "stop_discovery"
     THEN [ip |-> None, config |-> cfg,
           log |-> <<"print_trying_discovery", "start_discovery",
                     "stop_discovery", "print_discovery_failed">>]
     ELSE IF hits # {}
     THEN [ip |-> scan.found[hit],
           config |-> [cfg EXCEPT !.devices =
                         set_ip(cfg.devices, rec.serial, scan.found[hit])],
           log |-> <<"print_trying_discovery", "start_discovery",
                     "stop_discovery", "save_config", "print_discovered">>]
     ELSE [ip |-> None, config |-> cfg,
           log |-> <<"print_trying_discovery", "start_discovery",
                     "stop_discovery">>]

\* discover that uses the discovered address without saving it.
discover_not_saved(cfg, rec, scan) ==
  IF scan.failed = "start_discovery"
  THEN [ip |-> None, config |-> cfg,
        log |-> <<"print_trying_discovery", "start_discovery",
                  "print_discovery_failed">>]
  ELSE IF scan.failed = "stop_discovery"
  THEN [ip |-> None, config |-> cfg,
        log |-> <<"print_trying_discovery", "start_discovery", "stop_discovery",
                  "print_discovery_failed">>]
  ELSE IF rec.serial \in DOMAIN scan.found
  THEN [ip |-> scan.found[rec.serial], config |-> cfg,
        log |-> <<"print_trying_discovery", "start_discovery", "stop_discovery",
                  "print_discovered">>]
  ELSE [ip |-> None, config |-> cfg,
        log |-> <<"print_trying_discovery", "start_discovery", "stop_discovery">>]

\* The discovery branch of status, cli.py:299-322, for a record with no
\* address: the address found (None: none), the config to persist and the
\* calls and messages made.
discover(cfg, rec, scan) ==
  IF scan.failed = "start_discovery"
  THEN [ip |-> None, config |-> cfg,
        log |-> <<"print_trying_discovery", "start_discovery",
                  "print_discovery_failed">>]
  ELSE IF scan.failed = "stop_discovery"
  THEN [ip |-> None, config |-> cfg,
        log |-> <<"print_trying_discovery", "start_discovery", "stop_discovery",
                  "print_discovery_failed">>]
  ELSE IF rec.serial \in DOMAIN scan.found
  THEN [ip |-> scan.found[rec.serial],
        config |-> [cfg EXCEPT !.devices =
                      set_ip(cfg.devices, rec.serial, scan.found[rec.serial])],
        log |-> <<"print_trying_discovery", "start_discovery", "stop_discovery",
                  "save_config", "print_discovered">>]
  ELSE [ip |-> None, config |-> cfg,
        log |-> <<"print_trying_discovery", "start_discovery", "stop_discovery">>]

\* The try block of status: connect, read the state, disconnect, print it.
StatusEvents == <<"connect", "read_state", "disconnect", "print_status">>

\* cli.py:324-414: exit Unreachable without an address, else run the session.
\* fail_at is the position in StatusEvents of the client call that raises.
status_connect(device, ip, found, head) ==
  IF ~Truthy(ip)
  THEN last' = [Invocation("status", device, FALSE, None,
                           head \o <<"print_no_ip">>, EXIT_CONNECTION_ERROR)
                  EXCEPT !.found = found]
  ELSE \E fail_at \in {0} \cup Raisers(StatusEvents) :
         LET run == try_session(StatusEvents, fail_at)
         IN last' = [Invocation("status", device, FALSE, ip,
                                head \o run.log, run.exit)
                       EXCEPT !.found = found]

\* status that scans whether or not the record has an address.
status_always_scans(device) ==
  LET idx == get_device(config, device)
      rec == config.devices[idx]
  IN
  /\ prev' = config
  /\ arg' = None
  /\ IF idx = 0
     THEN /\ config' = config
          /\ last' = Invocation("status", device, FALSE, None,
                                <<"print_not_found">>, EXIT_DEVICE_NOT_FOUND)
     ELSE \E scan \in DiscoveryOutcomes :
            LET res == discover(config, rec, scan)
            IN /\ config' = res.config
               /\ status_connect(device,
                                 IF Truthy(res.ip) THEN res.ip ELSE rec.ip,
                                 scan.found,
                                 <<"libdyson_get_device">> \o res.log)

\* status: device is --device.
status(device) ==
  LET idx == get_device(config, device)
      rec == config.devices[idx]
  IN
  /\ prev' = config
  /\ arg' = None
  /\ IF idx = 0
     THEN /\ config' = config
          /\ last' = Invocation("status", device, FALSE, None,
                                <<"print_not_found">>, EXIT_DEVICE_NOT_FOUND)
     ELSE IF Truthy(rec.ip)
     THEN /\ config' = config
          /\ status_connect(device, rec.ip, <<>>, <<"libdyson_get_device">>)
     ELSE \E scan \in DiscoveryOutcomes :
            LET res == discover(config, rec, scan)
            IN /\ config' = res.config
               /\ status_connect(device, res.ip, scan.found,
                                 <<"libdyson_get_device">> \o res.log)

-----------------------------------------------------------------------------
(* cli.py: the control commands *)

\* before_session with the --dry-run test left out.
before_session_no_preview(cmd, device, dry_run) ==
  LET idx == get_device(config, device)
      rec == config.devices[idx]
  IN IF idx = 0
     THEN [done |-> TRUE, ip |-> None,
           last |-> Invocation(cmd, device, dry_run, None,
                               <<"print_not_found">>, EXIT_DEVICE_NOT_FOUND)]
     ELSE IF ~Truthy(rec.ip)
     THEN [done |-> TRUE, ip |-> None,
           last |-> Invocation(cmd, device, dry_run, None,
                               <<"print_no_ip">>, EXIT_CONNECTION_ERROR)]
     ELSE [done |-> FALSE, ip |-> rec.ip, last |-> last]

\* before_session with the stored-address test left out.
before_session_no_ip_check(cmd, device, dry_run) ==
  LET idx == get_device(config, device)
      rec == config.devices[idx]
  IN IF idx = 0
     THEN [done |-> TRUE, ip |-> None,
           last |-> Invocation(cmd, device, dry_run, None,
                               <<"print_not_found">>, EXIT_DEVICE_NOT_FOUND)]
     ELSE IF dry_run
     THEN [done |-> TRUE, ip |-> rec.ip,
           last |-> Invocation(cmd, device, dry_run, None,
                               <<"print_would">>, EXIT_SUCCESS)]
     ELSE [done |-> FALSE, ip |-> rec.ip, last |-> last]

\* What every control handler does before its session (cli.py:437-451 and
\* the same lines of the others): resolve the device, require a stored
\* address, stop at the preview under --dry-run.  done: the invocation ends
\* here with `last`; otherwise the session runs against `ip`.
before_session(cmd, device, dry_run) ==
  LET idx == get_device(config, device)
      rec == config.devices[idx]
  IN IF idx = 0
     THEN [done |-> TRUE, ip |-> None,
           last |-> Invocation(cmd, device, dry_run, None,
                               <<"print_not_found">>, EXIT_DEVICE_NOT_FOUND)]
     ELSE IF ~Truthy(rec.ip)
     THEN [done |-> TRUE, ip |-> None,
           last |-> Invocation(cmd, device, dry_run, None,
                               <<"print_no_ip">>, EXIT_CONNECTION_ERROR)]
     ELSE IF dry_run
     THEN [done |-> TRUE, ip |-> rec.ip,
           last |-> Invocation(cmd, device, dry_run, None,
                               <<"print_would">>, EXIT_SUCCESS)]
     ELSE [done |-> FALSE, ip |-> rec.ip, last |-> last]

\* The client is built and the try block runs (cli.py:459-482 and alike).
in_session(cmd, device, dry_run, ip, events, fail_at) ==
  LET run == try_session(events, fail_at)
  IN Invocation(cmd, device, dry_run, ip,
                <<"libdyson_get_device">> \o run.log, run.exit)

\* A control handler with no capability probe.
control(cmd, device, dry_run, events) ==
  LET pre == before_session(cmd, device, dry_run)
  IN /\ prev' = config
     /\ config' = config
     /\ IF pre.done
        THEN last' = pre.last
        ELSE \E fail_at \in {0} \cup Raisers(events) :
               last' = in_session(cmd, device, dry_run, pre.ip, events, fail_at)

\* control_probed without the hasattr probe: the command is sent to any client.
control_unprobed(cmd, device, dry_run, events) ==
  LET pre == before_session(cmd, device, dry_run)
      sent == SelectSeq(events, LAMBDA e : e # "hasattr_ok")
  IN /\ prev' = config
     /\ config' = config
     /\ IF pre.done
        THEN last' = pre.last
        ELSE \E fail_at \in {0} \cup Raisers(sent) :
               last' = in_session(cmd, device, dry_run, pre.ip, sent, fail_at)

\* A heat handler: hasattr(dyson_device, ...) is probed after connect
\* ("hasattr_ok": the client has the method, "hasattr_missing": it has not);
\* on a client without the method the handler calls sys.exit(EXIT_ERROR)
\* inside the try block (SystemExit is not an Exception).
control_probed(cmd, device, dry_run, events) ==
  LET pre == before_session(cmd, device, dry_run)
  IN /\ prev' = config
     /\ config' = config
     /\ IF pre.done
        THEN last' = pre.last
        ELSE \/ \E fail_at \in {0} \cup Raisers(events) :
                  last' = in_session(cmd, device, dry_run, pre.ip, events, fail_at)
             \/ last' = Invocation(cmd, device, dry_run, pre.ip,
                                   <<"libdyson_get_device", "connect",
                                     "hasattr_missing", "print_unsupported">>,
                                   EXIT_ERROR)

\* click rejects the arguments before the handler runs.
usage_error(cmd, device, dry_run) ==
  /\ prev' = config
  /\ config' = config
  /\ last' = Invocation(cmd, device, dry_run, None, <<"print_usage">>,
                        EXIT_USAGE_ERROR)

\* on / off
control_power(device, power_on, dry_run) ==
  /\ arg' = None
  /\ control(IF power_on THEN "on" ELSE "off", device, dry_run,
             <<"connect", IF power_on THEN "turn_on" ELSE "turn_off",
               "print_ok", "disconnect">>)

\* The speeds the user may type.
SpeedPool == {"Auto", "0", "10", "11", "fast"}

\* int(value): the strings it accepts (ValueError otherwise) and its result.
IsInt(value) == value \in {"0", "10", "11"}

ParseInt(value) ==
  CASE value = "0" -> 0
    [] value = "10" -> 10
    [] value = "11" -> 11

\* validate_speed with the range test left out.
validate_speed_any_number(value) ==
  \/ Lower(value) = "auto"
  \/ IsInt(value)

validate_speed(value) ==
  \/ Lower(value) = "auto"
  \/ /\ IsInt(value)
     /\ 1 <= ParseInt(value)
     /\ ParseInt(value) <= 10

\* fan speed
fan_speed(speed, device, dry_run) ==
  /\ arg' = speed
  /\ IF ~validate_speed(speed)
     THEN usage_error("fan speed", device, dry_run)
     ELSE control("fan speed", device, dry_run,
                  IF Lower(speed) = "auto"
                  THEN <<"connect", "enable_auto_mode", "print_ok", "disconnect">>
                  ELSE <<"connect", "disable_auto_mode", "set_speed", "print_ok",
                         "disconnect">>)

\* fan oscillate: state is "on" or "off", angle is --angle, 0 when the option
\* is absent (None and 0 are both falsy in `if angle:`).
AnglePool == {0, 90}

fan_oscillate(state, angle, device, dry_run) ==
  /\ arg' = None
  /\ control("fan oscillate", device, dry_run,
             IF state = "on"
             THEN IF angle # 0
                  THEN <<"connect", "enable_oscillation(low,high)", "print_ok",
                         "disconnect">>
                  ELSE <<"connect", "enable_oscillation()", "print_ok",
                         "disconnect">>
             ELSE <<"connect", "disable_oscillation", "print_ok", "disconnect">>)

\* heat on / heat off
control_heat(device, enable, dry_run) ==
  /\ arg' = None
  /\ control_probed(IF enable THEN "heat on" ELSE "heat off", device, dry_run,
                    <<"connect", "hasattr_ok",
                      IF enable THEN "enable_heat_mode" ELSE "disable_heat_mode",
                      "print_ok", "disconnect">>)

\* The targets the user may type, in degrees Celsius.
TemperaturePool == {0, 37, 38}

validate_temperature(value) == 1 <= value /\ value <= 37

\* heat target
heat_target(temperature, device, dry_run) ==
  /\ arg' = temperature
  /\ IF ~validate_temperature(temperature)
     THEN usage_error("heat target", device, dry_run)
     ELSE control_probed("heat target", device, dry_run,
                         <<"connect", "hasattr_ok", "set_heat_target", "print_ok",
                           "disconnect">>)

\* night: state is "on" or "off".
night(state, device, dry_run) ==
  /\ arg' = None
  /\ control("night", device, dry_run,
             <<"connect",
               IF state = "on" THEN "enable_night_mode" ELSE "disable_night_mode",
               "print_ok", "disconnect">>)

ControlCommands ==
  {"on", "off", "fan speed", "fan oscillate", "heat on", "heat off",
   "heat target", "night"}

-----------------------------------------------------------------------------
(* default and remove *)

\* set_default_device(name), config.py:74-82: whether a device was found, and
\* the config persisted (cfg itself when nothing is saved).
set_default_device(cfg, name) ==
  LET idx == get_device(cfg, name)
      device == cfg.devices[idx]
  IN IF idx # 0
     THEN [ok |-> TRUE,
           config |-> [cfg EXCEPT !.default_device =
                         IF Truthy(device.name) THEN device.name ELSE device.serial]]
     ELSE [ok |-> FALSE, config |-> cfg]

\* default NAME
set_default(name) ==
  LET res == set_default_device(config, name)
  IN /\ prev' = config
     /\ arg' = None
     /\ config' = res.config
     /\ last' = IF res.ok
                THEN Invocation("default", name, FALSE, None,
                                <<"save_config", "print_ok">>, EXIT_SUCCESS)
                ELSE Invocation("default", name, FALSE, None,
                                <<"print_not_found">>, EXIT_DEVICE_NOT_FOUND)

\* without_serial dropping the head of the list, whichever record matched.
without_first(devices, serial) == Tail(devices)

\* The records kept by remove: those whose serial differs from the removed one's.
without_serial(devices, serial) ==
  LET keep == {i \in DOMAIN devices : devices[i].serial # serial}
      RECURSIVE pick(_)
      pick(i) == IF i > Len(devices) THEN <<>>
                 ELSE IF i \in keep THEN <<devices[i]>> \o pick(i + 1)
                 ELSE pick(i + 1)
  IN pick(1)

\* removed without the reassignment of the default.
removed_keeps_default(cfg, device) ==
  [devices |-> without_serial(cfg.devices, device.serial),
   default_device |-> cfg.default_device]

\* cli.py:837-843: the config remove saves once it is confirmed.
removed(cfg, device) ==
  LET devices == without_serial(cfg.devices, device.serial)
  IN [devices |-> devices,
      default_device |->
        IF cfg.default_device = device.name
        THEN IF devices # <<>> THEN devices[1].name ELSE None
        ELSE cfg.default_device]

\* remove_device saving the removal before it asks.
remove_device_then_asks(name, force) ==
  LET idx == first_match(config.devices, name)
      device == config.devices[idx]
  IN /\ prev' = config
     /\ arg' = force
     /\ IF idx = 0
        THEN /\ config' = config
             /\ last' = Invocation("remove", name, FALSE, None,
                                   <<"print_not_found">>, EXIT_DEVICE_NOT_FOUND)
        ELSE /\ config' = removed(config, device)
             /\ \E confirm \in BOOLEAN :
                  last' = Invocation("remove", name, FALSE, None,
                                     IF force
                                     THEN <<"save_config", "print_removed">>
                                     ELSE IF confirm
                                     THEN <<"save_config", "confirm_yes",
                                            "print_removed">>
                                     ELSE <<"save_config", "confirm_no",
                                            "print_cancelled">>,
                                     EXIT_SUCCESS)

\* remove NAME [--force]; confirm is the answer to click.confirm
\* ("confirm_yes" / "confirm_no" in the log); arg records --force.
remove_device(name, force) ==
  LET idx == first_match(config.devices, name)
      device == config.devices[idx]
  IN /\ prev' = config
     /\ arg' = force
     /\ IF idx = 0
        THEN /\ config' = config
             /\ last' = Invocation("remove", name, FALSE, None,
                                   <<"print_not_found">>, EXIT_DEVICE_NOT_FOUND)
        ELSE IF force
        THEN /\ config' = removed(config, device)
             /\ last' = Invocation("remove", name, FALSE, None,
                                   <<"save_config", "print_removed">>,
                                   EXIT_SUCCESS)
        ELSE \E confirm \in BOOLEAN :
               IF confirm
               THEN /\ config' = removed(config, device)
                    /\ last' = Invocation("remove", name, FALSE, None,
                                          <<"confirm_yes", "save_config",
                                            "print_removed">>, EXIT_SUCCESS)
               ELSE /\ config' = config
                    /\ last' = Invocation("remove", name, FALSE, None,
                                          <<"confirm_no", "print_cancelled">>,
                                          EXIT_SUCCESS)

Next ==
  \/ \E login_ok \in BOOLEAN, devices \in CloudDevices : setup(login_ok, devices)
  \/ \E device \in IdentPool : status(device)
  \/ \E device \in IdentPool, power_on \in BOOLEAN, dry_run \in BOOLEAN :
       control_power(device, power_on, dry_run)
  \/ \E speed \in SpeedPool, device \in IdentPool, dry_run \in BOOLEAN :
       fan_speed(speed, device, dry_run)
  \/ \E state \in {"on", "off"}, angle \in AnglePool, device \in IdentPool,
        dry_run \in BOOLEAN :
       fan_oscillate(state, angle, device, dry_run)
  \/ \E device \in IdentPool, enable \in BOOLEAN, dry_run \in BOOLEAN :
       control_heat(device, enable, dry_run)
  \/ \E temperature \in TemperaturePool, device \in IdentPool, dry_run \in BOOLEAN :
       heat_target(temperature, device, dry_run)
  \/ \E state \in {"on", "off"}, device \in IdentPool, dry_run \in BOOLEAN :
       night(state, device, dry_run)
  \/ \E name \in IdentPool \ {None} : set_default(name)
  \/ \E name \in IdentPool \ {None}, force \in BOOLEAN : remove_device(name, force)

Spec == Init /\ [][Next]_vars

-----------------------------------------------------------------------------
(* The config store on its own: setup, default and remove over accounts    *)
(* of up to MaxStored devices, one of which the owner has left unnamed.    *)

MaxStored == 3

WideNamePool == {"Den", "x1", ""}
WideSerialPool == {"X1", "s2", "s3"}

WideCloudDevices ==
  {ds \in SeqsUpTo({NewDevice(n, s, c, t) :
                      n \in WideNamePool, s \in WideSerialPool,
                      c \in CredPool, t \in TypePool},
                   MaxStored) :
     \A i, j \in DOMAIN ds :
        i # j => /\ Lower(ds[i].name) # Lower(ds[j].name)
                 /\ Lower(ds[i].serial) # Lower(ds[j].serial)}

\* What the user may type for NAME.
StoreIdentPool == {"den", "x1", "s2", "s3"}

StoreNext ==
  \/ \E login_ok \in BOOLEAN, devices \in WideCloudDevices :
       setup(login_ok, devices)
  \/ \E name \in StoreIdentPool : set_default(name)
  \/ \E name \in StoreIdentPool, force \in BOOLEAN : remove_device(name, force)

StoreSpec == Init /\ [][StoreNext]_vars

-----------------------------------------------------------------------------
(* The output of one status read, cli.py:336-410.  Here `arg` is raw_state  *)
(* as it is read from the client and `last` what the command prints.  An    *)
(* optional value is <<>> (None: the client has no such attribute) or <<v>>;*)
(* temperatures are in tenths of a kelvin, the client reporting them as     *)
(* floats with one decimal.                                                 *)

Absent == <<>>

Some(v) == <<v>>

OptBool == {Absent, Some(TRUE), Some(FALSE)}

\* Values a client may report.
RawSpeedPool == {Absent, Some(4)}
RawAngleLowPool == {Absent, Some(45)}
RawAngleHighPool == {Absent, Some(315)}
RawHeatTargetPool == {Absent, Some(2930), Some(3000)}
RawTemperaturePool == {Absent, Some(2956), Some(3000)}
RawHumidityPool == {Absent, Some(40)}

RawStates ==
  [auto_mode : OptBool, speed : RawSpeedPool, oscillation : OptBool,
   oscillation_angle_low : RawAngleLowPool,
   oscillation_angle_high : RawAngleHighPool,
   night_mode : {Absent, Some(TRUE)}, heat_mode_is_on : OptBool,
   heat_target : RawHeatTargetPool, temperature : RawTemperaturePool,
   humidity : RawHumidityPool]

\* Python truthiness of an optional boolean, `if raw_state.get(...)`.
IsTrue(opt) == opt # Absent /\ opt[1]

\* `x or d` for an optional number.
OrElse(opt, d) == IF opt = Absent \/ opt[1] = 0 THEN d ELSE opt[1]

\* int() of a number given in tenths: truncation.
IntOfTenths(t) == t \div 10

\* The rows of the table.  fan: Auto, a speed, or Off; oscillation: Off
\* (Absent) or <<range, low, high>>; heat: no row, Off, or On with the
\* target in degrees Celsius; temperature: the row's value in tenths of a
\* degree Celsius (format .1f); humidity; night.
render_table(raw) ==
  [fan_auto |-> IsTrue(raw.auto_mode),
   fan_speed |-> IF IsTrue(raw.auto_mode) THEN Absent ELSE raw.speed,
   oscillation |->
     IF IsTrue(raw.oscillation)
     THEN LET angle_low == OrElse(raw.oscillation_angle_low, 0)
              angle_high == OrElse(raw.oscillation_angle_high, 0)
          IN <<angle_high - angle_low, angle_low, angle_high>>
     ELSE Absent,
   heat_row |-> raw.heat_mode_is_on # Absent,
   heat_target |->
     IF IsTrue(raw.heat_mode_is_on)
     THEN LET target_k == IF raw.heat_target = Absent \/ raw.heat_target[1] = 0
                          THEN 293
                          ELSE IntOfTenths(raw.heat_target[1])
          IN Some(target_k - 273)
     ELSE Absent,
   temperature |->
     IF raw.temperature # Absent
     THEN Some((IntOfTenths(raw.temperature[1]) - 273) * 10)
     ELSE Absent,
   humidity |-> raw.humidity,
   night |-> IsTrue(raw.night_mode)]

\* json.dumps(raw_state): every value as it was read, None as null.
json_dumps(raw) == raw

RenderInit ==
  /\ config = EmptyConfig
  /\ prev = EmptyConfig
  /\ arg \in RawStates
  /\ last = [out |-> "none"]

\* status --json
status_json ==
  /\ last' = [out |-> "json", json |-> json_dumps(arg)]
  /\ UNCHANGED <<config, prev, arg>>

\* status
status_table ==
  /\ last' = [out |-> "table", table |-> render_table(arg)]
  /\ UNCHANGED <<config, prev, arg>>

RenderNext ==
  \/ status_json
  \/ status_table

RenderSpec == RenderInit /\ [][RenderNext]_vars

-----------------------------------------------------------------------------
(* The call fan oscillate on makes on a connected client, cli.py:585-596.  *)
(* Here `arg` is --angle (0: the option is absent) and `last` the call.    *)

\* The widest angle typed.
MaxAngle == 360

RequestedAngles == 0..MaxAngle

Max2(a, b) == IF a >= b THEN a ELSE b

Min2(a, b) == IF a <= b THEN a ELSE b

\* cli.py:588-591: the bounds for a requested angle.
oscillation_bounds(angle) ==
  LET center == 180
      half == angle \div 2
  IN [angle_low |-> Max2(5, center - half),
      angle_high |-> Min2(355, center + half)]

OscillateInit ==
  /\ config = EmptyConfig
  /\ prev = EmptyConfig
  /\ arg \in RequestedAngles
  /\ last = [call |-> "none"]

\* fan oscillate on [--angle N], connected.
enable_oscillation ==
  /\ last' = IF arg # 0
             THEN [call |-> "enable_oscillation(low,high)",
                   angle_low |-> oscillation_bounds(arg).angle_low,
                   angle_high |-> oscillation_bounds(arg).angle_high]
             ELSE [call |-> "enable_oscillation()"]
  /\ UNCHANGED <<config, prev, arg>>

OscillateNext == enable_oscillation

OscillateSpec == OscillateInit /\ [][OscillateNext]_vars

-----------------------------------------------------------------------------
(* Two invocations against one store.  config.py has no lock: load_config  *)
(* reads the whole file, save_config overwrites it, and the statements of  *)
(* two processes interleave.  Here `config` is the file, `prev` the file   *)
(* before the last save, `arg` the history of the file (the document it    *)
(* started with, then one entry per save_config) and `last` the state of   *)
(* each process: the command it runs, where it is (pc), the copy it loaded *)
(* (loaded), the length of the history when it loaded (loaded_at) and when *)
(* its discovery window closed (scanned_at), the serial of the record it   *)
(* works on, and the value it is about to write (value: the discovered     *)
(* address, the new default, the removed record's name).                   *)

Procs == {1, 2}

\* What the second user types for NAME / --device.
RaceIdentPool == {"den", "s2"}

\* The file when the two invocations start.
RaceStores ==
  {[devices |-> <<[NewDevice("Den", "X1", "cred", "527") EXCEPT !.ip = ip],
                  NewDevice("x1", "s2", "cred", "527")>>,
    default_device |-> "Den"] : ip \in {None, "10.0.0.5"}}

Process(cmd, name, pc, loaded, loaded_at, scanned_at, serial, value) ==
  [cmd |-> cmd, name |-> name, pc |-> pc, loaded |-> loaded,
   loaded_at |-> loaded_at, scanned_at |-> scanned_at, serial |-> serial,
   value |-> value]

RaceInit ==
  /\ config \in RaceStores
  /\ prev = config
  /\ arg = <<[by |-> 0, cmd |-> "none", doc |-> config, loaded_at |-> 1,
              scanned_at |-> 1, serial |-> None, value |-> None]>>
  /\ last = [p \in Procs |->
               Process("none", None, "idle", EmptyConfig, 1, 1, None, None)]

\* save_config(doc) by process p, which is then done.
save_config(p, doc) ==
  /\ config' = doc
  /\ prev' = config
  /\ arg' = Append(arg, [by |-> p, cmd |-> last[p].cmd, doc |-> doc,
                         loaded_at |-> last[p].loaded_at,
                         scanned_at |-> last[p].scanned_at,
                         serial |-> last[p].serial, value |-> last[p].value])
  /\ last' = [last EXCEPT ![p].pc = "done"]

\* A step that leaves the file alone.
step(p, process) ==
  /\ last' = [last EXCEPT ![p] = process]
  /\ UNCHANGED <<config, prev, arg>>

\* status, cli.py:280-298: get_device loads the file; a record with a stored
\* address needs no discovery.
status_load(p, device) ==
  /\ last[p].pc = "idle"
  /\ LET idx == get_device(config, device)
     IN step(p, IF idx = 0 \/ config.devices[idx].ip # None
                THEN Process("status", device, "done", config, Len(arg), Len(arg),
                             None, None)
                ELSE Process("status", device, "scan", config, Len(arg), Len(arg),
                             config.devices[idx].serial, None))

\* cli.py:303-311: the discovery window closes; address is what it reports
\* for the record's serial, None when it reports nothing for it.
status_scan(p, address) ==
  /\ last[p].pc = "scan"
  /\ step(p, [last[p] EXCEPT !.pc = IF address = None THEN "done" ELSE "reload",
                             !.scanned_at = Len(arg),
                             !.value = address])

\* status_reload keeping the copy get_device loaded before the scan.
status_reload_stale(p) ==
  /\ last[p].pc = "reload"
  /\ step(p, [last[p] EXCEPT !.pc = "save"])

\* cli.py:314: config = load_config()
status_reload(p) ==
  /\ last[p].pc = "reload"
  /\ step(p, [last[p] EXCEPT !.pc = "save", !.loaded = config,
                             !.loaded_at = Len(arg)])

\* cli.py:315-318: write the address into the copy, save_config(config).
status_save(p) ==
  /\ last[p].pc = "save"
  /\ last[p].cmd = "status"
  /\ save_config(p, [last[p].loaded EXCEPT !.devices =
                       set_ip(last[p].loaded.devices, last[p].serial,
                              last[p].value)])

\* set_default_device, config.py:76: config = load_config()
default_load(p, name) ==
  /\ last[p].pc = "idle"
  /\ step(p, Process("default", name, "resolve", config, Len(arg), Len(arg),
                     None, None))

\* config.py:77-79: get_device(name) loads the file again.
default_resolve(p) ==
  /\ last[p].pc = "resolve"
  /\ LET idx == get_device(config, last[p].name)
         device == config.devices[idx]
     IN step(p, IF idx = 0
                THEN [last[p] EXCEPT !.pc = "done"]
                ELSE [last[p] EXCEPT !.pc = "save",
                                     !.serial = device.serial,
                                     !.value = IF Truthy(device.name)
                                               THEN device.name
                                               ELSE device.serial])

\* config.py:79-80
default_save(p) ==
  /\ last[p].pc = "save"
  /\ last[p].cmd = "default"
  /\ save_config(p, [last[p].loaded EXCEPT !.default_device = last[p].value])

\* remove, cli.py:818-830: load the file and find the record.
remove_load(p, name) ==
  /\ last[p].pc = "idle"
  /\ LET idx == first_match(config.devices, name)
     IN step(p, IF idx = 0
                THEN Process("remove", name, "done", config, Len(arg), Len(arg),
                             None, None)
                ELSE Process("remove", name, "confirm", config, Len(arg),
                             Len(arg), config.devices[idx].serial,
                             config.devices[idx].name))

\* cli.py:832-835: the confirmation is declined.
remove_cancel(p) ==
  /\ last[p].pc = "confirm"
  /\ step(p, [last[p] EXCEPT !.pc = "done"])

\* remove_save taking the file as it is now, as under a lock held from the
\* load to the save.
remove_save_locked(p) ==
  /\ last[p].pc = "confirm"
  /\ save_config(p, removed(config, [name |-> last[p].value,
                                     serial |-> last[p].serial]))

\* cli.py:837-843: --force or a yes; filter the copy and save it.
remove_save(p) ==
  /\ last[p].pc = "confirm"
  /\ save_config(p, removed(last[p].loaded, [name |-> last[p].value,
                                             serial |-> last[p].serial]))

RaceNext ==
  \/ \E p \in Procs, device \in RaceIdentPool \cup {None} : status_load(p, device)
  \/ \E p \in Procs, address \in {None, "10.0.0.9"} : status_scan(p, address)
  \/ \E p \in Procs : status_reload(p)
  \/ \E p \in Procs : status_save(p)
  \/ \E p \in Procs, name \in RaceIdentPool : default_load(p, name)
  \/ \E p \in Procs : default_resolve(p)
  \/ \E p \in Procs : default_save(p)
  \/ \E p \in Procs, name \in RaceIdentPool : remove_load(p, name)
  \/ \E p \in Procs : remove_cancel(p)
  \/ \E p \in Procs : remove_save(p)

RaceSpec == RaceInit /\ [][RaceNext]_vars

-----------------------------------------------------------------------------
(* Claims *)

InLog(e) == e \in Range(last.log)

\* The position of the first occurrence of e in the log.
Pos(e) == Min({i \in DOMAIN last.log : last.log[i] = e})

\* The record the last invocation resolved, as a position in prev.devices.
Resolved == get_device(prev, last.device)

\* Resolution as C1 words it: every record's name first, then every record's
\* serial, 0 for NotFound.
NameThenSerial(devices, name) ==
  LET byName == {i \in DOMAIN devices : Lower(devices[i].name) = Lower(name)}
      bySerial == {i \in DOMAIN devices : Lower(devices[i].serial) = Lower(name)}
  IN IF byName # {} THEN Min(byName)
     ELSE IF bySerial # {} THEN Min(bySerial)
     ELSE 0

\* C1: for every config and every supplied identifier, get_device returns the
\* first record whose name matches up to case if any name matches, only
\* otherwise the first record whose serial matches, and NotFound when neither
\* does: a name match on a later record wins over a serial match on an earlier
\* one.
C1_NameMatchWinsOverSerial ==
  \A name \in IdentPool \ {None} :
     get_device(config, name) = NameThenSerial(config.devices, name)

\* C2: when default_device is set but matches no record of a non-empty
\* collection, get_device with no identifier returns the first record, not
\* NotFound.
C2_StaleDefaultFallsBackToFirst ==
  (/\ config.devices # <<>>
   /\ Truthy(config.default_device)
   /\ first_match(config.devices, config.default_device) = 0)
    => get_device(config, None) = 1

\* C3: after any sequence of setup, default, remove and status, the persisted
\* default_device is null or the name of a record of the collection.
C3_DefaultNamesARecord ==
  \/ config.default_device = None
  \/ \E i \in DOMAIN config.devices :
        config.devices[i].name = config.default_device

\* C4: an invocation that called connect on the device client has called
\* disconnect by the time it exits, on every exit path.
C4_DisconnectOnEveryExit ==
  InLog("connect") => InLog("disconnect")

\* The invocation is a control command that got past click's validation.
IsControl == last.cmd \in ControlCommands /\ last.exit # EXIT_USAGE_ERROR

\* The record the invocation resolved had / had not a stored address.
HadAddress == Resolved # 0 /\ Truthy(prev.devices[Resolved].ip)
HadNoAddress == Resolved # 0 /\ ~Truthy(prev.devices[Resolved].ip)

\* C5: a control command run with --dry-run makes no call on the device
\* client (not even its construction), runs no discovery and leaves the
\* persisted config as it was.
C5_DryRunTouchesNothing ==
  (last.cmd \in ControlCommands /\ last.dry_run)
    => /\ \A i \in DOMAIN last.log :
            last.log[i] \notin ClientCalls \cup DiscoveryCalls
       /\ config = prev

C5_Witness ==
  /\ last.cmd \in ControlCommands
  /\ last.dry_run
  /\ last.log = <<"print_would">>

\* C6: a --dry-run control command on a device that resolves ends with
\* success and the preview message, never with the connection-failure exit
\* status, whether or not the record has a stored address.
C6_DryRunNeverUnreachable ==
  (IsControl /\ last.dry_run /\ Resolved # 0)
    => /\ last.exit = EXIT_SUCCESS
       /\ InLog("print_would")

\* C7: an invocation whose record already has an address starts no discovery
\* scan, hands the stored address to connect and leaves the config (and so
\* the stored address) as it was, so that the same holds of every repetition.
C7_StoredAddressShortCircuits ==
  (last.cmd \in ControlCommands \cup {"status"} /\ HadAddress)
    => /\ ~InLog("start_discovery")
       /\ InLog("connect") => last.ip = prev.devices[Resolved].ip
       /\ config = prev

C7_Witness ==
  /\ last.cmd = "status"
  /\ HadAddress
  /\ InLog("connect")
  /\ last.ip = prev.devices[Resolved].ip

\* C8: when status scans for a record with no address and the scan reports
\* the record's serial, the reported address is on that record in the
\* persisted config, saved before connect is called; and no command other
\* than setup and remove changes a stored address, so every later invocation
\* for the record finds it stored (and, by C7, starts no scan).
C8_DiscoveredAddressPersisted ==
  /\ (last.cmd = "status" /\ HadNoAddress
        /\ prev.devices[Resolved].serial \in DOMAIN last.found)
       => /\ Len(config.devices) = Len(prev.devices)
          /\ config.devices[Resolved].ip = last.found[prev.devices[Resolved].serial]
          /\ InLog("save_config") /\ InLog("connect")
          /\ Pos("save_config") < Pos("connect")
          /\ last.ip = config.devices[Resolved].ip
  /\ last.cmd \notin {"setup", "remove"}
       => /\ Len(config.devices) = Len(prev.devices)
          /\ \A i \in DOMAIN prev.devices :
               Truthy(prev.devices[i].ip) => config.devices[i].ip = prev.devices[i].ip

C8_Witness ==
  /\ last.cmd = "status"
  /\ HadNoAddress
  /\ prev.devices[Resolved].serial \in DOMAIN last.found
  /\ Truthy(config.devices[Resolved].ip)
  /\ InLog("connect")

\* C9: when status scans for a record with no address and the scan raises or
\* reports no device with the record's serial, the invocation ends with the
\* connection-failure exit status after telling the user to add the address,
\* calls connect never and leaves the persisted config as it was.
C9_NoMatchIsUnreachable ==
  (last.cmd = "status" /\ HadNoAddress
     /\ prev.devices[Resolved].serial \notin DOMAIN last.found)
    => /\ last.exit = EXIT_CONNECTION_ERROR
       /\ last.log[Len(last.log)] = "print_no_ip"
       /\ ~InLog("connect")
       /\ ~InLog("save_config")
       /\ config = prev

C9_Witness ==
  /\ last.cmd = "status"
  /\ HadNoAddress
  /\ InLog("print_discovery_failed")
  /\ last.exit = EXIT_CONNECTION_ERROR

RemoveTarget == first_match(prev.devices, last.device)

\* prev.devices less the record at position i.
Remaining(i) ==
  SubSeq(prev.devices, 1, i - 1) \o SubSeq(prev.devices, i + 1, Len(prev.devices))

\* The removal was applied: confirmed by --force or by the answer.
RemoveApplied == last.cmd = "remove" /\ InLog("save_config")

\* C11: for every collection size, when a confirmed remove deletes the record
\* whose name equals the current default_device, the default_device persisted
\* afterwards is the name of the first remaining record in collection order,
\* or null if no record remains.
C11_RemovedDefaultReassigned ==
  (RemoveApplied /\ prev.devices[RemoveTarget].name = prev.default_device)
    => /\ config.devices = Remaining(RemoveTarget)
       /\ config.default_device =
            IF Remaining(RemoveTarget) = <<>> THEN None
            ELSE Remaining(RemoveTarget)[1].name

\* The default, second of three records, is removed: the first record's name
\* becomes the default.
C11_Witness ==
  /\ RemoveApplied
  /\ Len(prev.devices) = MaxStored
  /\ RemoveTarget = 2
  /\ prev.devices[2].name = prev.default_device
  /\ config.default_device = prev.devices[1].name
  /\ Len(config.devices) = 2

\* C12: remove never changes the persisted config without an explicit
\* confirmation signal: without --force and with the confirmation declined,
\* and when the identifier matches no record, the persisted collection and
\* default_device are what they were before the command, and nothing is
\* saved; a config that changed was confirmed by --force or by the answer.
C12_RemoveNeedsConfirmation ==
  last.cmd = "remove" =>
    /\ (RemoveTarget = 0 \/ (~arg /\ InLog("confirm_no")))
         => (config = prev /\ ~InLog("save_config"))
    /\ RemoveTarget = 0 => last.exit = EXIT_DEVICE_NOT_FOUND
    /\ (config # prev \/ InLog("save_config"))
         => (arg \/ InLog("confirm_yes"))

\* A remove of an existing record is answered with no.
C12_Witness ==
  /\ last.cmd = "remove"
  /\ RemoveTarget # 0
  /\ ~arg
  /\ InLog("confirm_no")
  /\ config = prev
  /\ Len(config.devices) = MaxStored

\* C13: default NAME resolves NAME by name or serial; on success it persists
\* the resolved record's name (never the identifier as typed, never a serial)
\* as default_device, leaves the collection unchanged and reports success;
\* when NAME resolves to no record it reports failure and the persisted
\* config is unchanged.
C13_DefaultPersistsName ==
  last.cmd = "default" =>
    IF get_device(prev, last.device) # 0
    THEN /\ config.default_device = prev.devices[get_device(prev, last.device)].name
         /\ config.devices = prev.devices
         /\ last.exit = EXIT_SUCCESS
    ELSE /\ config = prev
         /\ last.exit = EXIT_DEVICE_NOT_FOUND

\* The first record whose name or serial is the default up to case, 0 when
\* the default names no record.
DefaultRecord ==
  LET hits == {i \in DOMAIN config.devices :
                 Lower(config.default_device)
                   \in {Lower(config.devices[i].name),
                        Lower(config.devices[i].serial)}}
  IN IF hits = {} THEN 0 ELSE Min(hits)

\* C14: get_device with no identifier returns the record the default_device
\* resolves to when a default is set and exists, the first record in
\* collection order when no default is set, and NotFound when the collection
\* is empty.
C14_NoIdentifierUsesDefault ==
  /\ config.devices = <<>> => get_device(config, None) = 0
  /\ (config.devices # <<>> /\ ~Truthy(config.default_device))
       => get_device(config, None) = 1
  /\ (config.devices # <<>> /\ Truthy(config.default_device)
        /\ DefaultRecord # 0)
       => get_device(config, None) = DefaultRecord

\* The default is the last of three records.
C14_Witness ==
  /\ Len(config.devices) = MaxStored
  /\ Truthy(config.default_device)
  /\ DefaultRecord = MaxStored
  /\ get_device(config, None) = MaxStored

\* The speeds and the targets the commands accept, as the help text words them.
SpeedsAccepted ==
  {"auto", "Auto", "AUTO", "1", "2", "3", "4", "5", "6", "7", "8", "9", "10"}

TargetsAccepted == 1..37

\* The invocation ended as a usage error and did nothing else: no device
\* resolved, no scan, no call on the device client, nothing saved.
RejectedAtOnce ==
  /\ last.exit = EXIT_USAGE_ERROR
  /\ last.log = <<"print_usage">>
  /\ last.ip = None
  /\ config = prev

\* C15: argument validation is fail-fast: a fan speed that is neither an
\* integer in 1..10 nor "auto" up to case, and a heat target outside 1..37
\* degrees Celsius, is rejected as a usage error before device resolution,
\* before any discovery and before any connect call on the device client;
\* every accepted value lies in the stated range.
C15_ValidationFailsFast ==
  /\ last.cmd = "fan speed" =>
       IF arg \in SpeedsAccepted
       THEN last.exit # EXIT_USAGE_ERROR
       ELSE RejectedAtOnce
  /\ last.cmd = "heat target" =>
       IF arg \in TargetsAccepted
       THEN last.exit # EXIT_USAGE_ERROR
       ELSE RejectedAtOnce

\* Speed 11 is typed for a device that is stored with its address: the
\* command would have connected.
C15_Witness ==
  /\ last.cmd = "fan speed"
  /\ arg = "11"
  /\ RejectedAtOnce
  /\ Resolved # 0
  /\ prev.devices[Resolved].ip # None
  /\ ~last.dry_run

HeatCommands == {"enable_heat_mode", "disable_heat_mode", "set_heat_target"}

\* C19: a heat operation (heat on, heat off, heat target) on a device whose
\* client lacks the heat capability is never attempted: the capability is
\* probed before use, no heat command is sent to the client, and the command
\* ends with a rejection outcome distinct from the connection-failure outcome.
C19_HeatProbedBeforeUse ==
  /\ InLog("hasattr_missing") =>
       /\ Range(last.log) \cap HeatCommands = {}
       /\ ~InLog("print_ok")
       /\ ~InLog("print_failed")
       /\ last.exit = EXIT_ERROR
       /\ last.exit # EXIT_CONNECTION_ERROR
  /\ \A c \in HeatCommands :
       InLog(c) => (InLog("hasattr_ok") /\ Pos("hasattr_ok") < Pos(c))
  /\ (last.cmd \in {"heat on", "heat off", "heat target"} /\ InLog("connect")
        /\ ~InLog("raises"))
       => (InLog("hasattr_ok") \/ InLog("hasattr_missing"))

\* heat target 37 on a connected client without set_heat_target.
C19_Witness ==
  /\ last.cmd = "heat target"
  /\ arg = 37
  /\ InLog("connect")
  /\ InLog("hasattr_missing")
  /\ last.exit = EXIT_ERROR

\* The call that raised: the event before the "raises" mark.
RaisingCall == last.log[Pos("raises") - 1]

\* C20: an exception raised by the device client while connecting, issuing
\* the control operation or reading state is caught at the handler's try
\* block and turned into the connection-failure exit status; nothing escapes,
\* no success message is printed for the failed operation, and the command is
\* not retried: at most one connect call per invocation.
C20_ClientExceptionIsConnectionFailure ==
  /\ InLog("raises") =>
       /\ last.exit = EXIT_CONNECTION_ERROR
       /\ last.log[Len(last.log)] = "print_failed"
       /\ Pos("raises") = Len(last.log) - 1
       /\ RaisingCall \in ClientCalls
       /\ ~InLog("print_status")
       /\ InLog("print_ok") => RaisingCall = "disconnect"
  /\ Cardinality({i \in DOMAIN last.log : last.log[i] = "connect"}) <= 1

\* set_speed raises on a connected client.
C20_Witness ==
  /\ last.cmd = "fan speed"
  /\ InLog("raises")
  /\ RaisingCall = "set_speed"
  /\ last.exit = EXIT_CONNECTION_ERROR

\* Both oscillation bounds were read.
BothBounds ==
  arg.oscillation_angle_low # Absent /\ arg.oscillation_angle_high # Absent

\* C16: in the status shown, the oscillation range is present only when
\* oscillation is on and both angle_low and angle_high are present, and is
\* then high - low; when oscillation is on and one bound or neither is
\* present the range is absent: no range and no bound is computed from a
\* substituted value.
C16_RangeNeedsBothBounds ==
  last.out = "table" =>
    IF IsTrue(arg.oscillation) /\ BothBounds
    THEN last.table.oscillation =
           <<arg.oscillation_angle_high[1] - arg.oscillation_angle_low[1],
             arg.oscillation_angle_low[1], arg.oscillation_angle_high[1]>>
    ELSE last.table.oscillation = Absent

\* C17: the rendering is total and maps absent to absent: for every
\* combination of present and absent raw attributes, every field shown (fan
\* speed, oscillation range, heat target, temperature, humidity) whose raw
\* attribute is absent is absent in the output, never a default value that
\* reads like a measurement; the JSON output carries the absent value as it
\* is.
C17_AbsentStaysAbsent ==
  /\ last.out = "table" =>
       /\ arg.speed = Absent => last.table.fan_speed = Absent
       /\ ~BothBounds => last.table.oscillation = Absent
       /\ arg.heat_target = Absent => last.table.heat_target = Absent
       /\ arg.temperature = Absent => last.table.temperature = Absent
       /\ arg.humidity = Absent => last.table.humidity = Absent
  /\ last.out = "json" => last.json = arg

\* C18: for every raw temperature K the device reports (ambient temperature
\* and heat target), the table shows K - 273 degrees Celsius while the JSON
\* output of the same read carries K unchanged.  Values in tenths.
C18_DisplayIsKelvinMinus273 ==
  /\ last.out = "table" =>
       /\ arg.temperature # Absent =>
            last.table.temperature = Some(arg.temperature[1] - 2730)
       /\ (IsTrue(arg.heat_mode_is_on) /\ arg.heat_target # Absent) =>
            last.table.heat_target[1] * 10 = arg.heat_target[1] - 2730
  /\ last.out = "json" =>
       /\ last.json.temperature = arg.temperature
       /\ last.json.heat_target = arg.heat_target

\* C21: setting a default is deterministic with respect to later resolution:
\* for every config and identifier, after default NAME succeeds, get_device
\* with no identifier returns the record get_device(NAME) returns, also when
\* NAME matched by serial and when one record's name equals another record's
\* serial.
C21_DefaultResolvesToSameRecord ==
  (last.cmd = "default" /\ last.exit = EXIT_SUCCESS)
    => get_device(config, None) = get_device(config, last.device)

\* The records whose name or serial is the identifier typed, up to case.
Matching ==
  {i \in DOMAIN prev.devices :
     Lower(last.device) \in {Lower(prev.devices[i].name),
                             Lower(prev.devices[i].serial)}}

\* C24: a confirmed remove deletes exactly one record, the first in
\* collection order whose name or serial matches the identifier up to case,
\* and leaves every other record present, unmodified and in the same
\* relative order; default_device is unchanged whenever the removed record's
\* name is not the current default.
C24_RemoveDeletesOnlyTheMatch ==
  RemoveApplied =>
    /\ Matching # {}
    /\ Len(config.devices) = Len(prev.devices) - 1
    /\ \A i \in DOMAIN config.devices :
         config.devices[i] = prev.devices[IF i < Min(Matching) THEN i ELSE i + 1]
    /\ prev.devices[Min(Matching)].name # prev.default_device
         => config.default_device = prev.default_device

\* "x1" is the serial of the second record and the name of the third: the
\* second goes, the third stays, and the default, the first, is kept.
C24_Witness ==
  /\ RemoveApplied
  /\ Len(prev.devices) = MaxStored
  /\ Matching = {2, 3}
  /\ prev.default_device = prev.devices[1].name
  /\ config.devices = <<prev.devices[1], prev.devices[3]>>
  /\ config.default_device = prev.default_device

\* The angles the help text of --angle documents.
DocumentedAngles == {45, 90, 180, 350}

\* C25: when oscillation is enabled with a requested angle of the documented
\* set {45, 90, 180, 350}, the bounds sent to the device are centred on 180
\* and satisfy 5 <= angle_low < angle_high <= 355 with angle_high - angle_low
\* equal to the requested angle; enabling oscillation with no angle sends no
\* bounds.
C25_BoundsSpanRequestedAngle ==
  /\ (last.call # "none" /\ arg \in DocumentedAngles) =>
       /\ last.call = "enable_oscillation(low,high)"
       /\ 5 <= last.angle_low
       /\ last.angle_low < last.angle_high
       /\ last.angle_high <= 355
       /\ last.angle_low + last.angle_high = 2 * 180
       /\ last.angle_high - last.angle_low = arg
  /\ (last.call # "none" /\ arg = 0) => last.call = "enable_oscillation()"

\* The file as the save recorded at position k of the history found it when
\* its process loaded it.
Base(k) == arg[arg[k].loaded_at].doc

\* The save at position k overwrote a save made after its process loaded.
Overwrote(k) == arg[k].loaded_at < k - 1

\* C22: the store is unlocked and save is a full overwrite, so interleaved
\* invocations race with last-writer-wins: the persisted document is exactly
\* the one the last save wrote, and every save writes the copy its process
\* loaded with that process's own change, so what another invocation saved
\* between the load and the save is lost.
C22_LastWriterWins ==
  /\ config = arg[Len(arg)].doc
  /\ \A k \in 2..Len(arg) :
       /\ arg[k].cmd = "status" =>
            arg[k].doc.default_device = Base(k).default_device
       /\ arg[k].cmd = "default" => arg[k].doc.devices = Base(k).devices
       /\ arg[k].cmd = "remove" =>
            /\ Range(arg[k].doc.devices) \subseteq Range(Base(k).devices)
            /\ Len(arg[k].doc.devices) = Len(Base(k).devices) - 1

\* status saved the address it discovered for the first record while a
\* remove of the second record waited for its confirmation: the remove's
\* save leaves the first record without the address.
C22_Witness ==
  /\ Len(arg) = 3
  /\ Overwrote(3)
  /\ arg[2].cmd = "status"
  /\ arg[2].doc.devices[1].ip = "10.0.0.9"
  /\ arg[3].cmd = "remove"
  /\ Len(config.devices) = 1
  /\ config.devices[1].serial = arg[2].doc.devices[1].serial
  /\ config.devices[1].ip = None

\* C23: persisting a discovered address changes nothing but the address of
\* the record(s) whose serial is the discovered serial: the records, their
\* order, every other field, the other records' addresses and default_device
\* are as in the file, which is read again after the discovery window, not
\* written back from the copy loaded before it.
C23_OnlyTheAddressChanges ==
  \A k \in 2..Len(arg) :
     arg[k].cmd = "status" =>
       /\ arg[k].loaded_at >= arg[k].scanned_at
       /\ arg[k].doc.default_device = Base(k).default_device
       /\ Len(arg[k].doc.devices) = Len(Base(k).devices)
       /\ \A i \in DOMAIN Base(k).devices :
            arg[k].doc.devices[i] =
              IF Base(k).devices[i].serial = arg[k].serial
              THEN [Base(k).devices[i] EXCEPT !.ip = arg[k].value]
              ELSE Base(k).devices[i]

\* The default was changed to the second record's name while status was
\* scanning for the first record: the status save keeps the new default and
\* adds the address.
C23_Witness ==
  /\ Len(arg) = 3
  /\ arg[2].cmd = "default"
  /\ arg[2].doc.default_device = "x1"
  /\ arg[3].cmd = "status"
  /\ arg[3].scanned_at = 2
  /\ config.default_device = "x1"
  /\ config.devices[1].ip = "10.0.0.9"
  /\ arg[1].doc.devices[1].ip = None
  /\ arg[1].doc.default_device = "Den"

====
